---- MODULE Spec2Model ----
(***************************************************************************)
(* Model of streaming_history_dash.py: the module-level event store        *)
(* `streaming_history`, the calculation and filtering functions over it,   *)
(* and the Dash callback that issues them.                                 *)
(*                                                                         *)
(* A data frame of events is a record [columns, rows]; an aggregate frame  *)
(* is the sequence of its rows.  A timestamp is a number of hours since    *)
(* 2023-12-01 00:00 (a Friday), a date is a number of days since that day. *)
(* A call's outcome is [status, value]: status "ok", or the name of the    *)
(* exception the call raises.                                              *)
(***************************************************************************)
EXTENDS Integers, Sequences, FiniteSets, TLC

VARIABLES streaming_history, df_month, result

vars == <<streaming_history, df_month, result>>

(* ------------------------------ bounds -------------------------------- *)
\* most records in the two streaming history documents together
MaxEvents == 3
\* largest n handed to get_top_artists / get_top_tracks
MaxN == 3

NChoices == -1 .. MaxN
YearChoices == {2023, 2024}
MonthChoices == {1, 12, 13}

(* ------------------------------ helpers ------------------------------- *)
Range(s) == {s[i] : i \in DOMAIN s}

BoundedSeq(S, n) == UNION {[1..k -> S] : k \in 1..n}

Min(a, b) == IF a < b THEN a ELSE b

Max(a, b) == IF a > b THEN a ELSE b

RECURSIVE SumMs(_)
SumMs(rows) ==
    IF rows = <<>> THEN 0 ELSE Head(rows).msPlayed + SumMs(Tail(rows))

RECURSIVE SortAsc(_)
SortAsc(S) ==
    IF S = {} THEN <<>>
    ELSE LET m == CHOOSE x \in S : \A y \in S : x <= y
         IN  <<m>> \o SortAsc(S \ {m})

\* all orderings of the elements of a set
RECURSIVE Orderings(_)
Orderings(S) ==
    IF S = {} THEN {<<>>}
    ELSE UNION {{<<x>> \o t : t \in Orderings(S \ {x})} : x \in S}

Ok(v) == [status |-> "ok", value |-> v]

Raise(e) == [status |-> e, value |-> <<>>]

\* a missing value of a merged or re-indexed column
NaN == <<>>

\* no frame: the callback has not filtered yet
None == [columns |-> {}, rows |-> <<>>]

(* --------------------- strings and calendar fields --------------------- *)
\* the names in use, in lexical order
Alphabet == <<"a", "b", "c", "x", "y">>

lex_rank(s) == CHOOSE i \in DOMAIN Alphabet : Alphabet[i] = s

dt_date(t) == t \div 24

dt_hour(t) == t % 24

dt_year(d) == IF d < 31 THEN 2023 ELSE 2024

dt_month(d) == IF d < 31 THEN 12 ELSE IF d < 62 THEN 1 ELSE 2

dt_dayofweek(d) == (d + 4) % 7

strftime_b(m) == IF m = 12 THEN "Dec" ELSE IF m = 1 THEN "Jan" ELSE "Feb"

strftime_a(w) == <<"Mon", "Tue", "Wed", "Thu", "Fri", "Sat", "Sun">>[w + 1]

\* the timestamp a date and hour text reads as: pd.to_datetime of an endTime,
\* and '{} {}:00'.format(date, hour) read back by date_range
to_datetime(d, h) == d * 24 + h

(* ------------------------------ loading ------------------------------- *)
EventColumns ==
    {"endTime", "artistName", "trackName", "msPlayed", "date", "year",
     "month", "monthName", "dayOfWeek", "dayName", "hour"}

RECURSIVE concat(_)
concat(df_list) ==
    IF df_list = <<>> THEN <<>> ELSE Head(df_list) \o concat(Tail(df_list))

\* the fields of a source record
SourceFields == {"endTime", "artistName", "trackName", "msPlayed"}

\* the text of an endTime is <<date, hour>>; it reads as a time when the hour
\* is an hour of the day
parseable(text) == text[1] >= 0 /\ text[2] \in 0..23

\* the cell of record r in column c of the frame read_json builds: missing
\* when the record has no such field
cell(r, c) == IF c \in DOMAIN r THEN r[c] ELSE NaN

\* files_to_dataframe over the documents json_list, each a sequence of
\* records: the store, or the exception of line 30
files_to_dataframe(json_list) ==
    LET df == concat(json_list)
        columns == UNION {DOMAIN df[i] : i \in DOMAIN df}
        derive(r) ==
            IF cell(r, "endTime") = NaN
            THEN [c \in columns \cup EventColumns |->
                    IF c \in SourceFields THEN cell(r, c) ELSE NaN]
            ELSE LET t == to_datetime(r.endTime[1], r.endTime[2])
                     d == dt_date(t)
                     derived ==
                        [endTime    |-> t,
                         date       |-> d,
                         year       |-> dt_year(d),
                         month      |-> dt_month(d),
                         monthName  |-> strftime_b(dt_month(d)),
                         dayOfWeek  |-> dt_dayofweek(d),
                         dayName    |-> strftime_a(dt_dayofweek(d)),
                         hour       |-> dt_hour(t)]
                 IN  [c \in columns \cup EventColumns |->
                        IF c \in DOMAIN derived THEN derived[c]
                        ELSE cell(r, c)]
    IN  IF "endTime" \notin columns THEN Raise("KeyError")
        ELSE IF \E i \in DOMAIN df :
                    cell(df[i], "endTime") # NaN /\ ~parseable(df[i].endTime)
        THEN Raise("ValueError")
        ELSE Ok([columns |-> columns \cup EventColumns,
                 rows    |-> [i \in DOMAIN df |-> derive(df[i])]])

(* ------------------------------ groupby ------------------------------- *)
\* groupby(keys)['msPlayed'].sum(): one group per distinct key, in ascending
\* key order; Rank maps a row to the position of its key in that order
groupby_sum(rows, Rank(_)) ==
    LET keys == SortAsc({Rank(r) : r \in Range(rows)})
    IN  [i \in DOMAIN keys |->
            LET grp == SelectSeq(rows, LAMBDA r : Rank(r) = keys[i])
            IN  [first |-> grp[1], msPlayed |-> SumMs(grp)]]

\* groupby(keys)['msPlayed'].mean(), as the fraction num / den
groupby_mean(rows, Rank(_)) ==
    LET keys == SortAsc({Rank(r) : r \in Range(rows)})
    IN  [i \in DOMAIN keys |->
            LET grp == SelectSeq(rows, LAMBDA r : Rank(r) = keys[i])
            IN  [first |-> grp[1],
                 msPlayed |-> [num |-> SumMs(grp), den |-> Len(grp)]]]

(* ----------------------- calculation functions ------------------------ *)
total_by_year_month(df) ==
    LET g == groupby_sum(df.rows, LAMBDA r : r.year * 12 + r.month)
    IN  [i \in DOMAIN g |->
            [year |-> g[i].first.year, month |-> g[i].first.month,
             monthName |-> g[i].first.monthName, msPlayed |-> g[i].msPlayed]]

\* the aggregation of total_by_date with first() in place of sum()
total_by_date_first(df) ==
    LET g == groupby_sum(df.rows, LAMBDA r : r.date)
    IN  [i \in DOMAIN g |->
            [date |-> g[i].first.date, msPlayed |-> g[i].first.msPlayed]]

total_by_date(df) ==
    LET g == groupby_sum(df.rows, LAMBDA r : r.date)
    IN  [i \in DOMAIN g |->
            [date |-> g[i].first.date, msPlayed |-> g[i].msPlayed]]

\* df['weekend'] = df['dayOfWeek'] > 4: the frame handed in, with the column
assign_weekend(df) ==
    [columns |-> df.columns \cup {"weekend"},
     rows    |-> [i \in DOMAIN df.rows |->
                    [c \in DOMAIN df.rows[i] \cup {"weekend"} |->
                        IF c = "weekend" THEN df.rows[i].dayOfWeek > 4
                        ELSE df.rows[i][c]]]]

total_by_weekday_weekend(df) ==
    LET g == groupby_sum(assign_weekend(df).rows,
                         LAMBDA r : IF r.weekend THEN 1 ELSE 0)
    IN  [i \in DOMAIN g |->
            [weekend |-> g[i].first.weekend, msPlayed |-> g[i].msPlayed]]

total_by_hour(df) ==
    LET g == groupby_sum(df.rows, LAMBDA r : r.date * 24 + r.hour)
    IN  [i \in DOMAIN g |->
            [date |-> g[i].first.date, hour |-> g[i].first.hour,
             msPlayed |-> g[i].msPlayed]]

\* a range that stops one step before its end
date_range_open(start, end) == [i \in 1..(end - start) |-> start + i - 1]

\* pd.date_range(start, end): every step from start to end, both included
date_range(start, end) == [i \in 1..(end - start + 1) |-> start + i - 1]

\* pd.merge(left, right, on, how = 'left'): the left rows in order, each once
\* per right row with the same key, or once with msPlayed missing
RECURSIVE merge_left(_, _, _)
merge_left(left, right, on) ==
    IF left = <<>> THEN <<>>
    ELSE LET l == Head(left)
             m == SelectSeq(right, LAMBDA r : r[on] = l[on])
         IN  (IF m = <<>> THEN << l @@ [msPlayed |-> NaN] >>
              ELSE [j \in DOMAIN m |-> l @@ [msPlayed |-> <<m[j].msPlayed>>]])
             \o merge_left(Tail(left), right, on)

\* fillna(v) on the msPlayed column
fillna(rows, v) ==
    [i \in DOMAIN rows |->
        [rows[i] EXCEPT !.msPlayed = IF @ = NaN THEN v ELSE @[1]]]

get_date_tally(df_date) ==
    IF df_date = <<>> THEN Raise("IndexError")
    ELSE LET first_day == df_date[1].date
             last_day  == df_date[Len(df_date)].date
             rng       == date_range(first_day, last_day)
             dates     == [i \in DOMAIN rng |-> [date |-> rng[i]]]
         IN  Ok(fillna(merge_left(dates, df_date, "date"), 0))

get_hour_tally(df_hour) ==
    IF df_hour = <<>> THEN Raise("IndexError")
    ELSE LET start_dt == to_datetime(df_hour[1].date, df_hour[1].hour)
             end_dt   == to_datetime(df_hour[Len(df_hour)].date, df_hour[1].hour)
             rng      == date_range(start_dt, end_dt)
             \* line 95: the key of each observed row
             keyed    == [i \in DOMAIN df_hour |->
                            [date_hour |-> <<df_hour[i].date, df_hour[i].hour>>,
                             msPlayed  |-> df_hour[i].msPlayed]]
             \* line 96: the key column of the range is assigned from the
             \* observed rows, aligned on the row index
             hours    == [i \in DOMAIN rng |->
                            [date      |-> dt_date(rng[i]),
                             hour      |-> dt_hour(rng[i]),
                             date_hour |-> IF i \in DOMAIN keyed
                                           THEN keyed[i].date_hour ELSE NaN]]
             df_merged == fillna(merge_left(hours, keyed, "date_hour"), 0)
         IN  Ok([i \in DOMAIN df_merged |->
                    [date |-> df_merged[i].date, hour |-> df_merged[i].hour,
                     msPlayed |-> df_merged[i].msPlayed]])

\* the mean over the dates that have events, without the date tally
average_by_day_of_week_observed(df) ==
    LET df_date == total_by_date(df)
    IN  IF df_date = <<>> THEN Raise("IndexError")
        ELSE LET g == groupby_mean(df_date, LAMBDA r : dt_dayofweek(r.date))
             IN  Ok([i \in DOMAIN g |->
                        [dayOfWeek |-> dt_dayofweek(g[i].first.date),
                         dayName   |-> strftime_a(dt_dayofweek(g[i].first.date)),
                         msPlayed  |-> g[i].msPlayed]])

average_by_day_of_week(df) ==
    LET df_date == total_by_date(df)
        date_tally == get_date_tally(df_date)
    IN  IF date_tally.status # "ok" THEN date_tally
        ELSE LET g == groupby_mean(date_tally.value,
                                   LAMBDA r : dt_dayofweek(r.date))
             IN  Ok([i \in DOMAIN g |->
                        [dayOfWeek |-> dt_dayofweek(g[i].first.date),
                         dayName   |-> strftime_a(dt_dayofweek(g[i].first.date)),
                         msPlayed  |-> g[i].msPlayed]])

average_by_hour(df) ==
    LET df_hour == total_by_hour(df)
        hour_tally == get_hour_tally(df_hour)
    IN  IF hour_tally.status # "ok" THEN hour_tally
        ELSE LET g == groupby_mean(hour_tally.value, LAMBDA r : r.hour)
             IN  Ok([i \in DOMAIN g |->
                        [hour |-> g[i].first.hour, msPlayed |-> g[i].msPlayed]])

total_by_artist(df) ==
    LET g == groupby_sum(df.rows, LAMBDA r : lex_rank(r.artistName))
    IN  [i \in DOMAIN g |->
            [artistName |-> g[i].first.artistName, msPlayed |-> g[i].msPlayed]]

\* sort_values('msPlayed', ascending = False) with the default sort kind,
\* which is not stable: every ordering with non-increasing msPlayed
sort_values_desc(rows) ==
    {s \in Orderings(Range(rows)) :
        \A i \in 1..(Len(s) - 1) : s[i].msPlayed >= s[i + 1].msPlayed}

\* sort_values('msPlayed'): every ordering with non-decreasing msPlayed
sort_values_asc(rows) ==
    {s \in Orderings(Range(rows)) :
        \A i \in 1..(Len(s) - 1) : s[i].msPlayed <= s[i + 1].msPlayed}

\* head(n): the first n rows, or for negative n all but the last -n rows
head(rows, n) ==
    IF n >= 0 THEN SubSeq(rows, 1, Min(n, Len(rows)))
    ELSE SubSeq(rows, 1, Max(Len(rows) + n, 0))

\* the top artists taken from an ascending sort
get_top_artists_asc(df, n) ==
    {head(s, n) : s \in sort_values_asc(total_by_artist(df))}

\* the results get_top_artists may return
get_top_artists(df, n) ==
    {head(s, n) : s \in sort_values_desc(total_by_artist(df))}

total_by_track(df) ==
    LET g == groupby_sum(df.rows,
                 LAMBDA r : lex_rank(r.artistName) * (Len(Alphabet) + 1)
                            + lex_rank(r.trackName))
    IN  [i \in DOMAIN g |->
            [artistName |-> g[i].first.artistName,
             trackName  |-> g[i].first.trackName,
             msPlayed   |-> g[i].msPlayed]]

\* the results get_top_tracks may return
get_top_tracks(df, n) ==
    {head(s, n) : s \in sort_values_desc(total_by_track(df))}

(* ------------------------- filtering functions ------------------------- *)
filter_by_month(df, year, month) ==
    [columns |-> df.columns,
     rows    |-> SelectSeq(df.rows,
                           LAMBDA r : r.year = year /\ r.month = month)]

(* ------------------------------- inputs -------------------------------- *)
\* records that differ in their date: a gap, a repeated weekday, two months
DayRecords ==
    [artistName : {"a"}, trackName : {"x"},
     endTime : {<<d, 10>> : d \in {0, 1, 8, 31}}, msPlayed : {1, 2}]

\* records that differ in their date and hour
HourRecords ==
    [artistName : {"a"}, trackName : {"x"},
     endTime : {<<0, 14>>, <<0, 16>>, <<1, 10>>, <<1, 14>>},
     msPlayed : {1, 2}]

\* records that differ in their artist and track
TopRecords ==
    {[artistName |-> k[1], trackName |-> k[2],
      endTime |-> <<0, 14>>, msPlayed |-> k[3]] :
        k \in {<<"a", "x", 1>>, <<"a", "x", 2>>, <<"a", "y", 1>>,
               <<"b", "x", 1>>, <<"b", "x", 2>>, <<"c", "x", 2>>}}

\* records of two artists on Sunday 2023-12-31 and Monday 2024-01-01
AnyRecords ==
    {[artistName |-> k[1], trackName |-> "x",
      endTime |-> k[2], msPlayed |-> 1] :
        k \in {<<"a", <<30, 14>>>>, <<"a", <<31, 16>>>>,
               <<"b", <<31, 16>>>>}}

(* -------------------------------- state -------------------------------- *)
NoResult ==
    [op |-> "none", src |-> "none", args |-> <<>>, input |-> <<>>,
     status |-> "ok", value |-> <<>>]

\* the module is loaded: streaming_history = files_to_dataframe() over two
\* documents that hold at least one record between them
Load(records) ==
    /\ \E recs \in BoundedSeq(records, MaxEvents) :
         \E k \in 0..Len(recs) :
            LET loaded == files_to_dataframe(<<SubSeq(recs, 1, k),
                                               SubSeq(recs, k + 1, Len(recs))>>)
            IN  loaded.status = "ok" /\ streaming_history = loaded.value
    /\ df_month = None
    /\ result = NoResult

Init == Load(AnyRecords)

InitDay == Load(DayRecords)

InitHour == Load(HourRecords)

InitTop == Load(TopRecords)

\* the frames a call can be handed: the store, or the last filtered frame
Srcs == {"store"} \cup (IF df_month = None THEN {} ELSE {"month"})

Frame(src) == IF src = "store" THEN streaming_history ELSE df_month

\* a call that reads the frame `src` and leaves with `outcome`
Returns(op, src, args, outcome) ==
    result' = [op |-> op, src |-> src, args |-> args,
               input |-> Frame(src).rows,
               status |-> outcome.status, value |-> outcome.value]

(* ------------------------------- actions ------------------------------- *)
Call_filter_by_month ==
    \E year \in YearChoices, month \in MonthChoices :
        LET df == filter_by_month(streaming_history, year, month)
        IN  /\ df_month' = df
            /\ Returns("filter_by_month", "store", <<year, month>>, Ok(df.rows))
            /\ UNCHANGED streaming_history

Call_total_by_year_month ==
    \E src \in Srcs :
        /\ Returns("total_by_year_month", src, <<>>,
                   Ok(total_by_year_month(Frame(src))))
        /\ UNCHANGED <<streaming_history, df_month>>

Call_total_by_weekday_weekend ==
    \E src \in Srcs :
        /\ Returns("total_by_weekday_weekend", src, <<>>,
                   Ok(total_by_weekday_weekend(Frame(src))))
        /\ IF src = "store"
           THEN /\ streaming_history' = assign_weekend(streaming_history)
                /\ UNCHANGED df_month
           ELSE /\ df_month' = assign_weekend(df_month)
                /\ UNCHANGED streaming_history

Call_get_date_tally ==
    \E src \in Srcs :
        /\ Returns("get_date_tally", src, <<>>,
                   get_date_tally(total_by_date(Frame(src))))
        /\ UNCHANGED <<streaming_history, df_month>>

Call_get_hour_tally ==
    \E src \in Srcs :
        /\ Returns("get_hour_tally", src, <<>>,
                   get_hour_tally(total_by_hour(Frame(src))))
        /\ UNCHANGED <<streaming_history, df_month>>

Call_average_by_day_of_week ==
    \E src \in Srcs :
        /\ Returns("average_by_day_of_week", src, <<>>,
                   average_by_day_of_week(Frame(src)))
        /\ UNCHANGED <<streaming_history, df_month>>

Call_average_by_hour ==
    \E src \in Srcs :
        /\ Returns("average_by_hour", src, <<>>, average_by_hour(Frame(src)))
        /\ UNCHANGED <<streaming_history, df_month>>

Call_total_by_artist ==
    \E src \in Srcs :
        /\ Returns("total_by_artist", src, <<>>, Ok(total_by_artist(Frame(src))))
        /\ UNCHANGED <<streaming_history, df_month>>

Call_get_top_artists ==
    \E src \in Srcs, n \in NChoices :
        \E top \in get_top_artists(Frame(src), n) :
            /\ Returns("get_top_artists", src, <<n>>, Ok(top))
            /\ UNCHANGED <<streaming_history, df_month>>

Call_total_by_track ==
    \E src \in Srcs :
        /\ Returns("total_by_track", src, <<>>, Ok(total_by_track(Frame(src))))
        /\ UNCHANGED <<streaming_history, df_month>>

Call_get_top_tracks ==
    \E src \in Srcs, n \in NChoices :
        \E top \in get_top_tracks(Frame(src), n) :
            /\ Returns("get_top_tracks", src, <<n>>, Ok(top))
            /\ UNCHANGED <<streaming_history, df_month>>

\* n of update_output_container
TopN == 5

\* the option values of the dropdown: the months that have events
dropdown_options ==
    LET monthly_data == total_by_year_month(streaming_history)
    IN  {<<monthly_data[i].year, monthly_data[i].month>> :
            i \in DOMAIN monthly_data}

\* the charts of one branch of the callback over df, in the order they are
\* made: the frame as the calls leave it, and the charts or the first
\* exception
charts(df, top_artists, top_tracks, monthly) ==
    LET day_week == average_by_day_of_week(df)
        weekday_weekend == total_by_weekday_weekend(df)
        by_hour == average_by_hour(assign_weekend(df))
    IN  IF day_week.status # "ok" THEN [df |-> df, outcome |-> day_week]
        ELSE IF by_hour.status # "ok"
        THEN [df |-> assign_weekend(df), outcome |-> by_hour]
        ELSE [df |-> assign_weekend(df),
              outcome |-> Ok(<<top_artists, top_tracks>> \o monthly
                             \o <<day_week.value, weekday_weekend,
                                  by_hour.value>>)]

\* update_output_container('all')
update_output_container_all ==
    \E top_artists \in get_top_artists(streaming_history, TopN),
       top_tracks \in get_top_tracks(streaming_history, TopN) :
        LET c == charts(streaming_history, top_artists, top_tracks,
                        <<total_by_year_month(streaming_history)>>)
        IN  /\ Returns("update_output_container", "store", <<>>, c.outcome)
            /\ streaming_history' = c.df
            /\ UNCHANGED df_month

\* update_output_container('<year> <month>')
update_output_container_month ==
    \E input_month \in dropdown_options :
        LET filtered == filter_by_month(streaming_history,
                                        input_month[1], input_month[2])
        IN  \E top_artists \in get_top_artists(filtered, TopN),
               top_tracks \in get_top_tracks(filtered, TopN) :
                LET c == charts(filtered, top_artists, top_tracks, <<>>)
                IN  /\ result' = [op |-> "update_output_container",
                                  src |-> "month", args |-> input_month,
                                  input |-> filtered.rows,
                                  status |-> c.outcome.status,
                                  value |-> c.outcome.value]
                    /\ df_month' = c.df
                    /\ UNCHANGED streaming_history

\* update_output_container('Select month')
update_output_container_none ==
    /\ result' = [NoResult EXCEPT !.op = "update_output_container"]
    /\ UNCHANGED <<streaming_history, df_month>>

(* --------------------------- specifications ---------------------------- *)
Next ==
    \/ Call_filter_by_month
    \/ Call_total_by_year_month
    \/ Call_total_by_weekday_weekend
    \/ Call_get_date_tally
    \/ Call_get_hour_tally
    \/ Call_average_by_day_of_week
    \/ Call_average_by_hour
    \/ Call_total_by_artist
    \/ Call_get_top_artists
    \/ Call_total_by_track
    \/ Call_get_top_tracks
    \/ update_output_container_all
    \/ update_output_container_month
    \/ update_output_container_none

Spec == Init /\ [][Next]_vars

\* the day tally and the weekday average over stores that differ in dates
NextDay ==
    \/ Call_filter_by_month
    \/ Call_get_date_tally
    \/ Call_average_by_day_of_week

SpecDay == InitDay /\ [][NextDay]_vars

\* the hour tally and the hourly average over stores that differ in hours
NextHour ==
    \/ Call_filter_by_month
    \/ Call_get_hour_tally
    \/ Call_average_by_hour

SpecHour == InitHour /\ [][NextHour]_vars

\* the artist and track totals over stores that differ in artists and tracks
NextTop ==
    \/ Call_filter_by_month
    \/ Call_total_by_artist
    \/ Call_get_top_artists
    \/ Call_total_by_track
    \/ Call_get_top_tracks

SpecTop == InitTop /\ [][NextTop]_vars

\* source records, well-formed and not: a negative msPlayed, an endTime that
\* is no time of day, a record without msPlayed, a record without endTime
LoadRecords ==
    {[artistName |-> "a", trackName |-> "x", endTime |-> <<0, 14>>,
      msPlayed |-> 1],
     [artistName |-> "b", trackName |-> "y", endTime |-> <<31, 16>>,
      msPlayed |-> 2],
     [artistName |-> "a", trackName |-> "x", endTime |-> <<0, 14>>,
      msPlayed |-> -1],
     [artistName |-> "a", trackName |-> "x", endTime |-> <<0, 24>>,
      msPlayed |-> 1],
     [artistName |-> "a", trackName |-> "x", endTime |-> <<0, 14>>],
     [artistName |-> "a", trackName |-> "x", msPlayed |-> 1]}

\* the module is about to run streaming_history = files_to_dataframe()
InitLoad ==
    /\ streaming_history = None
    /\ df_month = None
    /\ result = NoResult

\* line 293: the load over two documents; the store exists only if the load
\* returns
Call_files_to_dataframe ==
    /\ result = NoResult
    /\ \E recs \in {<<>>} \cup BoundedSeq(LoadRecords, MaxEvents) :
         \E k \in 0..Len(recs) :
            LET json_list == <<SubSeq(recs, 1, k), SubSeq(recs, k + 1, Len(recs))>>
                loaded == files_to_dataframe(json_list)
            IN  /\ result' = [op |-> "files_to_dataframe", src |-> "files",
                              args |-> json_list, input |-> concat(json_list),
                              status |-> loaded.status, value |-> <<>>]
                /\ streaming_history' =
                      IF loaded.status = "ok" THEN loaded.value ELSE None
    /\ UNCHANGED df_month

NextLoad == Call_files_to_dataframe

SpecLoad == InitLoad /\ [][NextLoad]_vars

(* ------------------------------- claims -------------------------------- *)
\* what the last call was given and what it returned
Input == result.input

Value == result.value

Called(op) == result.op = op /\ result.src # "none"

MinOf(S) == CHOOSE x \in S : \A y \in S : x <= y

MaxOf(S) == CHOOSE x \in S : \A y \in S : x >= y

EventDates == {Input[i].date : i \in DOMAIN Input}

EventHours == {Input[i].date * 24 + Input[i].hour : i \in DOMAIN Input}

\* the events of the input that satisfy Test
MsWhere(Test(_)) == SumMs(SelectSeq(Input, Test))

RECURSIVE SumValue(_)
SumValue(rows) ==
    IF rows = <<>> THEN 0 ELSE Head(rows).msPlayed + SumValue(Tail(rows))

\* C1: for a non-empty collection of events in any arrival order, the day
\* tally has (maxDate - minDate) + 1 buckets, whose dates run from minDate
\* upwards in steps of exactly one day, none repeated and none left out.
C1_DayTallyIsTheFullDateRange ==
    (Called("get_date_tally") /\ Input # <<>>) =>
        /\ result.status = "ok"
        /\ Len(Value) = MaxOf(EventDates) - MinOf(EventDates) + 1
        /\ \A i \in DOMAIN Value : Value[i].date = MinOf(EventDates) + i - 1

\* a day tally of events that arrive out of date order and leave a gap
C1_Witness ==
    /\ Called("get_date_tally")
    /\ result.status = "ok"
    /\ Len(Input) >= 2
    /\ Input[1].date > Input[2].date
    /\ Len(Value) > Cardinality(EventDates)

\* C2: the day tally keeps the total: its msPlayed add up to the msPlayed of
\* the events, and each bucket holds the sum of the events of its date, 0
\* when the date has none.
C2_DayTallyPreservesTotal ==
    (Called("get_date_tally") /\ Input # <<>>) =>
        /\ result.status = "ok"
        /\ SumValue(Value) = SumMs(Input)
        /\ \A i \in DOMAIN Value :
              Value[i].msPlayed =
                  MsWhere(LAMBDA r : r.date = Value[i].date)

\* a day tally with two events on one date and a date without events
C2_Witness ==
    /\ Called("get_date_tally")
    /\ result.status = "ok"
    /\ \E i, j \in DOMAIN Input : i # j /\ Input[i].date = Input[j].date
    /\ \E i \in DOMAIN Value :
          Value[i].msPlayed = 0 /\ Value[i].date \notin EventDates

\* C3: the hour tally has exactly one bucket for every hour from the
\* earliest observed (date, hour) to the latest observed (date, hour), in
\* ascending order in steps of one hour.
C3_HourTallyIsTheFullHourRange ==
    (Called("get_hour_tally") /\ Input # <<>>) =>
        /\ result.status = "ok"
        /\ Len(Value) = MaxOf(EventHours) - MinOf(EventHours) + 1
        /\ \A i \in DOMAIN Value :
              Value[i].date * 24 + Value[i].hour = MinOf(EventHours) + i - 1

\* C4: every bucket of the hour tally holds the sum of the events of its own
\* (date, hour), 0 when there are none.
C4_HourBucketHoldsItsOwnEvents ==
    (Called("get_hour_tally") /\ result.status = "ok") =>
        \A i \in DOMAIN Value :
            Value[i].msPlayed =
                MsWhere(LAMBDA r : r.date = Value[i].date
                                   /\ r.hour = Value[i].hour)

\* the dates from the first to the last event date that fall on weekday w
DatesOn(w) ==
    {d \in MinOf(EventDates)..MaxOf(EventDates) : dt_dayofweek(d) = w}

\* C5: average_by_day_of_week has one row for each weekday that occurs in
\* [minDate, maxDate], holding the msPlayed of all events on that weekday
\* divided by the number of dates of the range on that weekday, the dates
\* without events included.
C5_WeekdayAverageCountsEmptyDates ==
    (Called("average_by_day_of_week") /\ Input # <<>>) =>
        /\ result.status = "ok"
        /\ \A w \in 0..6 :
              (DatesOn(w) # {}) <=>
                  (\E i \in DOMAIN Value : Value[i].dayOfWeek = w)
        /\ \A i, j \in DOMAIN Value :
              Value[i].dayOfWeek = Value[j].dayOfWeek => i = j
        /\ \A i \in DOMAIN Value :
              LET w == Value[i].dayOfWeek
                  mean == Value[i].msPlayed
              IN  /\ mean.den > 0
                  /\ mean.num * Cardinality(DatesOn(w)) =
                        MsWhere(LAMBDA r : r.dayOfWeek = w) * mean.den

\* an average over a weekday that has a date with events and one without
C5_Witness ==
    /\ Called("average_by_day_of_week")
    /\ result.status = "ok"
    /\ \E i \in DOMAIN Value :
          /\ Value[i].msPlayed.num > 0
          /\ \E d \in DatesOn(Value[i].dayOfWeek) : d \notin EventDates

Artists == {Input[i].artistName : i \in DOMAIN Input}

ArtistTotal(a) == MsWhere(LAMBDA r : r.artistName = a)

\* C6: for a non-empty collection and n >= 1, get_top_artists returns
\* min(n, number of artists) rows, each an artist with its total, no artist
\* twice, in non-increasing order of total, and no artist left out has a
\* larger total than one returned.
C6_TopArtistsAreTheLargestTotals ==
    (Called("get_top_artists") /\ Input # <<>> /\ result.args[1] >= 1) =>
        /\ result.status = "ok"
        /\ Len(Value) = Min(result.args[1], Cardinality(Artists))
        /\ \A i \in DOMAIN Value :
              /\ Value[i].artistName \in Artists
              /\ Value[i].msPlayed = ArtistTotal(Value[i].artistName)
        /\ \A i, j \in DOMAIN Value :
              Value[i].artistName = Value[j].artistName => i = j
        /\ \A i \in 1..(Len(Value) - 1) :
              Value[i].msPlayed >= Value[i + 1].msPlayed
        /\ \A a \in Artists :
              (\A i \in DOMAIN Value : Value[i].artistName # a) =>
                  \A i \in DOMAIN Value : ArtistTotal(a) <= Value[i].msPlayed

\* a top-n that leaves out an artist with a smaller total than one returned
C6_Witness ==
    /\ Called("get_top_artists")
    /\ result.args[1] >= 1
    /\ Len(Value) >= 2
    /\ Value[1].msPlayed > Value[2].msPlayed
    /\ \E a \in Artists :
          /\ \A i \in DOMAIN Value : Value[i].artistName # a
          /\ ArtistTotal(a) < Value[1].msPlayed

\* C7: get_top_artists and get_top_tracks with n <= 0, and filter_by_month
\* with a month outside 1..12, fail with InvalidArgumentError.
C7_InvalidArgumentsAreRejected ==
    /\ ((Called("get_top_artists") \/ Called("get_top_tracks"))
            /\ result.args[1] <= 0)
          => result.status = "InvalidArgumentError"
    /\ (Called("filter_by_month") /\ result.args[2] \notin 1..12)
          => result.status = "InvalidArgumentError"

AggregationOps ==
    {"total_by_artist", "total_by_track", "total_by_year_month",
     "total_by_weekday_weekend", "get_top_artists", "get_top_tracks",
     "average_by_day_of_week", "average_by_hour"}

\* C8: every aggregation operation on an empty collection fails with
\* EmptyDatasetError.
C8_EmptyInputIsRejected ==
    (result.op \in AggregationOps /\ result.src # "none" /\ Input = <<>>) =>
        result.status = "EmptyDatasetError"

\* C9: no operation changes the event store: its records and its fields are
\* the same after every call.
C9_StoreIsNeverChanged ==
    [][streaming_history' = streaming_history]_vars

\* the place of a row's name (artist, or artist and track) in lexical order
NameRank(r) ==
    IF result.op = "get_top_artists" THEN lex_rank(r.artistName)
    ELSE lex_rank(r.artistName) * (Len(Alphabet) + 1) + lex_rank(r.trackName)

\* C10: in the result of get_top_artists and get_top_tracks, rows with equal
\* totals are in ascending lexical name order, and of the names tied at the
\* cut the lexically smaller are the ones kept.
C10_TiesAreInLexicalOrder ==
    ((Called("get_top_artists") \/ Called("get_top_tracks"))
        /\ result.args[1] >= 1) =>
        /\ \A i \in 1..(Len(Value) - 1) :
              Value[i].msPlayed = Value[i + 1].msPlayed =>
                  NameRank(Value[i]) < NameRank(Value[i + 1])
        /\ \A k \in DOMAIN Input :
              LET total == MsWhere(LAMBDA r : NameRank(r) = NameRank(Input[k]))
              IN  (\A i \in DOMAIN Value : NameRank(Value[i]) # NameRank(Input[k]))
                    => \A i \in DOMAIN Value :
                          Value[i].msPlayed = total =>
                              NameRank(Value[i]) < NameRank(Input[k])

\* a source record with every field, an endTime that reads as a time and a
\* msPlayed that is not negative
WellFormed(r) ==
    /\ SourceFields \subseteq DOMAIN r
    /\ parseable(r.endTime)
    /\ r.msPlayed >= 0

\* C11: the load is all-or-nothing: with a record that lacks a field, has an
\* endTime that does not parse or a negative msPlayed, it fails with
\* MalformedRecordError and there is no store; with well-formed records only,
\* the store holds every record of all documents in the order given.
C11_LoadIsAllOrNothing ==
    Called("files_to_dataframe") =>
        /\ (\E i \in DOMAIN Input : ~WellFormed(Input[i])) =>
              /\ result.status = "MalformedRecordError"
              /\ streaming_history = None
        /\ (Input # <<>> /\ \A i \in DOMAIN Input : WellFormed(Input[i])) =>
              /\ result.status = "ok"
              /\ Len(streaming_history.rows) = Len(Input)
              /\ \A i \in DOMAIN Input :
                    /\ streaming_history.rows[i].artistName = Input[i].artistName
                    /\ streaming_history.rows[i].trackName = Input[i].trackName
                    /\ streaming_history.rows[i].msPlayed = Input[i].msPlayed
                    /\ streaming_history.rows[i].date = Input[i].endTime[1]
                    /\ streaming_history.rows[i].hour = Input[i].endTime[2]

====
